---- MODULE Spec2Model ----
(***************************************************************************)
(* VAL1S Module 01: inventory walk and duplicate detection                 *)
(* (src/VAL1S_2025_MODULE_01.py).                                          *)
(*                                                                         *)
(* Strings are sequences of one-character strings, paths are sequences of  *)
(* names, so that Path.suffix, str.lower, str.startswith and               *)
(* Path.is_relative_to are computed the way the library computes them.     *)
(* The file system is a finite tree of directories whose entries are       *)
(* regular files (hard links to numbered inodes), FIFOs, sub-directories   *)
(* and absolute symbolic links.  It does not change during a run; what     *)
(* changes is whether a single stat or a single read succeeds (permission  *)
(* revoked, entry vanished), which the environment decides at each call.   *)
(***************************************************************************)
EXTENDS Integers, Sequences, FiniteSets, TLC

(***************************************************************************)
(* Bounds of the model.                                                    *)
(***************************************************************************)
\* Linux follows at most 40 symbolic links in one path resolution and then
\* fails with ELOOP; the model scales that limit down.
MAXSYMLINKS == 1
\* Number of stat/read calls the environment may make fail in one process.
MaxFailures == 1
\* Number of times the host calls walk_and_inventory + detect_duplicates
\* again in the same process (SpecRerun only).
MaxReruns == 1

(***************************************************************************)
(* Names used by the file systems of the model.                            *)
(***************************************************************************)
n_var  == <<"v","a","r">>
n_lib  == <<"l","i","b">>
n_libx == <<"l","i","b","x">>
n_git  == <<".","g","i","t">>
n_tmp  == <<"n",".","T","M","P">>
n_a    == <<"a">>
n_b    == <<"b">>
n_c    == <<"c">>
n_d    == <<"d">>
n_e    == <<"e">>
n_o    == <<"o">>
n_s    == <<"s">>
n_zz   == <<"z","z">>

(***************************************************************************)
(* Configuration, lines 11-19.                                             *)
(***************************************************************************)
SKIP_ABS ==
  { << <<"p","r","o","c">> >>, << <<"s","y","s">> >>, << <<"d","e","v">> >>,
    << <<"r","u","n">> >>, << <<"t","m","p">> >>,
    << n_var, n_lib >>, << n_var, <<"r","u","n">> >>,
    << n_var, <<"c","a","c","h","e">> >>,
    << <<"S","y","s","t","e","m">> >>, << <<"L","i","b","r","a","r","y">> >> }

SKIP_NAMES ==
  { n_git, <<".","s","v","n">>, <<".","D","S","_","S","t","o","r","e">>,
    <<"n","o","d","e","_","m","o","d","u","l","e","s">>,
    <<"_","_","p","y","c","a","c","h","e","_","_">> }

SKIP_EXTS == { <<".","t","m","p">>, <<".","s","w","p">> }

\* None, as a value comparable with digests (which are sequences).
None == <<"None">>

HASH_ALGO == "sha256"
READ_CHUNK == 1048576

(***************************************************************************)
(* String and path helpers.                                                *)
(***************************************************************************)
\* str.lower() on one character (the model's alphabet has these capitals).
LowerChar(c) ==
  CASE c = "T" -> "t" [] c = "M" -> "m" [] c = "P" -> "p" [] c = "D" -> "d"
    [] c = "S" -> "s" [] c = "L" -> "l" [] OTHER -> c

Lower(s) == [i \in 1..Len(s) |-> LowerChar(s[i])]

\* str.rfind('.') as a 1-based index, 0 when there is no dot.
RFindDot(s) ==
  LET dots == {i \in 1..Len(s) : s[i] = "."}
  IN  IF dots = {} THEN 0 ELSE CHOOSE i \in dots : \A j \in dots : j <= i

\* PurePath.suffix: the part of the name from its last dot, unless that dot
\* is the first or the last character of the name.
Suffix(name) ==
  LET j == RFindDot(name)
  IN  IF 1 < j /\ j < Len(name) THEN SubSeq(name, j, Len(name)) ELSE <<>>

\* str(PurePosixPath): "/" + "/".join(parts)
RECURSIVE JoinParts(_)
JoinParts(p) ==
  IF p = <<>> THEN <<>> ELSE <<"/">> \o Head(p) \o JoinParts(Tail(p))

PathStr(p) == IF p = <<>> THEN <<"/">> ELSE JoinParts(p)

\* str.startswith
StartsWith(s, t) == Len(t) <= Len(s) /\ SubSeq(s, 1, Len(t)) = t

\* PurePath.is_relative_to: root's parts are a prefix of rp's parts.
IsRelativeTo(rp, root) == Len(root) <= Len(rp) /\ SubSeq(rp, 1, Len(root)) = root

(***************************************************************************)
(* The file system.  A tree is chosen by three parameters: the inodes the  *)
(* entries /var/b and /var/libx/c link to, and the target of the symbolic  *)
(* link /var/s.  Directory listings are sequences: their order stands for  *)
(* the order os.scandir returns the entries in.                            *)
(***************************************************************************)
Ent(n, ty, i, tg) == [name |-> n, type |-> ty, ino |-> i, target |-> tg]

\* The bytes of each regular file, by inode number.
Content(ino) ==
  CASE ino = 1 -> <<"X">>
    [] ino = 2 -> <<"X">>
    [] ino = 3 -> <<"Y">>
    [] ino = 4 -> <<"X","Y">>
    [] OTHER   -> <<>>

Inodes == 1..4

LinkTargets ==
  { <<n_var, n_a>>,          \* a link to a regular file
    <<n_var, n_libx>>,       \* a link to a directory
    <<n_var>>,               \* a link to its own parent: a cycle
    <<n_var, n_zz>>,         \* a dangling link
    <<n_var, n_s>>,          \* a link to itself: a loop
    <<n_var, n_lib, n_d>> }  \* a link into an excluded root

Trees == [ib : Inodes, ic : Inodes, link : LinkTargets]

\* The roots a scan is asked for: a directory with entries of every kind, a
\* directory whose only entry is skip-listed, a path that does not exist and
\* a regular file.
Roots == { <<n_var>>, <<n_var, n_lib>>, <<n_var, n_zz>>, <<n_var, n_a>> }

\* The chunk sizes a run is configured with: the default or one byte.
ChunkSizes == {READ_CHUNK, 1}

\* The entries of directory number d of tree t: 0 is /, 1 is /var, 2 is
\* /var/lib, 3 is /var/libx, 4 is /var/.git.
Dirs(t, d) ==
  CASE d = 0 -> << Ent(n_var, "dir", 1, <<>>) >>
    [] d = 1 -> << Ent(n_a,    "reg",  1,    <<>>),
                   Ent(n_lib,  "dir",  2,    <<>>),
                   Ent(n_libx, "dir",  3,    <<>>),
                   Ent(n_b,    "reg",  t.ib, <<>>),
                   Ent(n_s,    "lnk",  7,    t.link),
                   Ent(n_o,    "fifo", 8,    <<>>),
                   Ent(n_tmp,  "reg",  5,    <<>>),
                   Ent(n_git,  "dir",  4,    <<>>) >>
    [] d = 2 -> << Ent(n_d, "reg", 2, <<>>) >>
    [] d = 3 -> << Ent(n_c, "reg", t.ic, <<>>) >>
    [] OTHER -> << Ent(n_e, "reg", 1, <<>>) >>

RootNode == Ent(<<>>, "dir", 0, <<>>)
ErrNode(e) == Ent(<<>>, e, 0, <<>>)
IsErr(n) == n.type \in {"ENOENT", "ENOTDIR", "ELOOP"}

\* The entry called name in directory d, or ENOENT.
DirEntry(t, d, name) ==
  LET es == Dirs(t, d)
      ix == {i \in 1..Len(es) : es[i].name = name}
  IN  IF ix = {} THEN ErrNode("ENOENT") ELSE es[CHOOSE i \in ix : TRUE]

\* Kernel path resolution from node along the components rest.  A symbolic
\* link in the middle of the path is always followed, the last component
\* only when follow is set; hops counts the links that may still be followed.
RECURSIVE LookupFrom(_, _, _, _, _)
LookupFrom(t, node, rest, follow, hops) ==
  IF rest = <<>> THEN node
  ELSE IF node.type # "dir" THEN ErrNode("ENOTDIR")
  ELSE LET e == DirEntry(t, node.ino, Head(rest))
       IN  IF IsErr(e) THEN e
           ELSE IF e.type = "lnk" /\ (Tail(rest) # <<>> \/ follow)
                THEN IF hops = 0 THEN ErrNode("ELOOP")
                     ELSE LookupFrom(t, RootNode, e.target \o Tail(rest),
                                     follow, hops - 1)
                ELSE LookupFrom(t, e, Tail(rest), follow, hops)

\* os.stat(p, follow_symlinks=follow) / os.lstat(p) when nothing else fails.
Lookup(t, p, follow) == LookupFrom(t, RootNode, p, follow, MAXSYMLINKS)

\* os.path.realpath(p, strict=False) followed by Path.resolve's loop check:
\* links are replaced by their targets, components that do not exist are
\* kept as they are.  acc is canonical.  Python keeps a table of the links
\* it is resolving and raises RuntimeError on a loop; fuel counts links.
RECURSIVE Realpath(_, _, _, _)
Realpath(t, acc, rest, fuel) ==
  IF rest = <<>> THEN acc
  ELSE LET newpath == Append(acc, Head(rest))
           st == LookupFrom(t, RootNode, newpath, FALSE, 0)
       IN  IF st.type # "lnk" THEN Realpath(t, newpath, Tail(rest), fuel)
           ELSE IF fuel = 0 THEN <<"RuntimeError">>
           ELSE Realpath(t, <<>>, st.target \o Tail(rest), fuel - 1)

\* Path.resolve(strict=False); no path of the model crosses more links
\* than it has components, so Len(p) is fuel enough for every path that is
\* not a loop.
Resolve(t, p) == Realpath(t, <<>>, p, Len(p))

(***************************************************************************)
(* The library calls of the program, on a tree t.                          *)
(***************************************************************************)
Last(p) == p[Len(p)]

\* Path.is_symlink(): lstat; ENOENT, ENOTDIR and ELOOP count as "no".
is_symlink(t, p) == Lookup(t, p, FALSE).type = "lnk"

\* os.stat result of a node.
StatOf(n) ==
  [st_mode  |-> n.type,
   st_size  |-> Len(Content(n.ino)),
   st_mtime |-> n.ino,
   st_dev   |-> 0,
   st_ino   |-> n.ino]

\* datetime.fromtimestamp(st_mtime, utc).isoformat()
IsoFormat(ts) == <<"iso", ts>>

\* is_skippable, lines 37-63.  hasRel tells whether the interpreter has
\* PurePath.is_relative_to (Python 3.9 and later); without it the call at
\* line 54 raises AttributeError and line 58 compares strings.
PrefixRule(hasRel, rp, root) ==
  IF hasRel THEN IsRelativeTo(rp, root)
  ELSE StartsWith(PathStr(rp), PathStr(root))

NameRule(name) == name \in SKIP_NAMES \/ Lower(Suffix(name)) \in SKIP_EXTS

\* The value returned by the handler of lines 61-63.
\* (Variant: the handler lets the path through.)
FailOpen == FALSE

FailSafe == TRUE

is_skippable(t, follow, hasRel, p) ==
  IF ~follow /\ is_symlink(t, p) THEN TRUE
  ELSE IF NameRule(Last(p)) THEN TRUE
  ELSE LET rp == Resolve(t, p)
       IN  IF rp = <<"RuntimeError">> THEN FailSafe   \* except Exception
           ELSE \E root \in SKIP_ABS : PrefixRule(hasRel, rp, root)

\* hash_file, lines 66-79: the blocks of chunk_size bytes are folded into
\* the digest state one after the other; the digest is an injective
\* function of the bytes folded in (no collisions).
RECURSIVE HashUpdate(_, _, _)
HashUpdate(h, data, chunk_size) ==
  IF data = <<>> THEN h
  ELSE LET n == IF chunk_size < Len(data) THEN chunk_size ELSE Len(data)
       IN  HashUpdate(h \o SubSeq(data, 1, n),
                      SubSeq(data, n + 1, Len(data)), chunk_size)

HexDigest(h) == <<HASH_ALGO, h>>

\* readable: the environment lets open() and read() succeed.  The default
\* of the parameter chunk_size is the value READ_CHUNK had when line 66 was
\* executed, at import; the only call, at line 137, passes no chunk_size.
hash_file(t, p, readable) ==
  LET n == Lookup(t, p, TRUE)
  IN  IF ~readable \/ IsErr(n) \/ n.type # "reg" THEN None
      ELSE HexDigest(HashUpdate(<<>>, Content(n.ino), READ_CHUNK))

\* The sizes the loop of lines 71-75 asks f.read for, one per call: a block
\* of at most chunk_size bytes each time, until a block comes back empty.
RECURSIVE ReadLoop(_, _)
ReadLoop(data, chunk_size) ==
  IF data = <<>> THEN <<chunk_size>>
  ELSE LET n == IF chunk_size < Len(data) THEN chunk_size ELSE Len(data)
       IN  <<chunk_size>> \o ReadLoop(SubSeq(data, n + 1, Len(data)), chunk_size)

\* No read is issued when open() fails.
ReadRequests(t, p, readable, chunk_size) ==
  LET n == Lookup(t, p, TRUE)
  IN  IF ~readable \/ IsErr(n) \/ n.type # "reg" THEN <<>>
      ELSE ReadLoop(Content(n.ino), chunk_size)

\* One step of os.walk(top, followlinks): the listing of directory top, split
\* into sub-directories and the rest.  entry.is_dir() follows links.
Listable(t, top) == Lookup(t, top, TRUE).type = "dir"

Listing(t, top) ==
  LET n == Lookup(t, top, TRUE)
  IN  IF n.type = "dir" THEN Dirs(t, n.ino) ELSE <<>>

WalkIsDir(t, p) == Lookup(t, p, TRUE).type = "dir"

\* The entries of top that are directories (dirs = TRUE) or are not, as
\* paths, in listing order.
SelectPaths(t, top, dirs) ==
  LET es == Listing(t, top)
      entries == [i \in 1..Len(es) |-> Append(top, es[i].name)]
  IN  SelectSeq(entries, LAMBDA p : WalkIsDir(t, p) = dirs)

walk_dirnames(t, top)  == SelectPaths(t, top, TRUE)
walk_filenames(t, top) == SelectPaths(t, top, FALSE)

(***************************************************************************)
(* State.                                                                  *)
(***************************************************************************)
VARIABLES
  tree,               \* the file system being scanned
  FOLLOW_SYMLINKS,    \* line 17, set from the command line at line 229
  has_relative_to,    \* the interpreter has PurePath.is_relative_to
  inventory_defined,  \* the global name inventory_data is bound
  inventory_data,     \* the list of rows [path, size, mtime]
  size_index,         \* line 29: dict size -> [paths], in insertion order
  hash_index,         \* line 31: dict digest -> [paths], in insertion order
  inode_hash,         \* line 33: dict (st_dev, st_ino) -> digest or None
  pc,                 \* position in the run, lines 236-244
  stack,              \* os.walk: directories still to be listed
  filenames,          \* os.walk: entries of the current directory to process
  bi, pj,             \* detect_duplicates: bucket and path being processed
  run,                \* number of the run in this process
  inventory_csv,      \* rows written by write_inventory_csv
  dupes_csv,          \* rows written by write_dupes_csv
  failures,           \* failed stat/read calls so far
  stat_failed,        \* history: paths whose stat raised in this run's walk
  listed,             \* history: directories os.walk has listed in this run
  accepted,           \* history: [path, st] that reached line 107 in this run
  hash_calls,         \* history: the calls of hash_file, [key, path, run]
  first_run,          \* history: inventory and groups at the end of run 1
  target,             \* the root directory of the scan, lines 192, 223, 238
  args_chunk,         \* the configured chunk size, lines 201 and 231
  read_sizes,         \* history: the sizes hash_file asked f.read for
  hash_failed,        \* history: paths whose hash_file returned None, this run
  examined,           \* history: paths the loop of line 129 has taken, this run
  walk_steps          \* history: steps walk_and_inventory has taken, this run

\* Module 03, execution (lines 337-345 and run_ffmpeg).
VARIABLES
  plans,              \* the plan list of lines 319/325: [path_in, path_out]
  force,              \* args.force, line 292
  jobs,               \* args.jobs, line 291
  in_files,           \* the input files that exist
  out_files,          \* the files under --out-root: [exists, size, by]
  job,                \* per plan record: the position of its run_ffmpeg call
  status,             \* per plan record: rec["status"] and rec["message"]
  results,            \* line 339: the records in order of completion
  actions_csv,        \* rows written by write_actions_csv at line 345
  launched,           \* history: records for which subprocess.run was called
  overwritten         \* history: [rec, path] of non-empty files truncated

vars03 == <<plans, force, jobs, in_files, out_files, job, status, results,
            actions_csv, launched, overwritten>>

\* Module 03 has not been started.
Idle03 ==
  /\ plans = <<>>
  /\ force = FALSE
  /\ jobs = 2
  /\ in_files = {}
  /\ out_files = <<>>
  /\ job = <<>>
  /\ status = <<>>
  /\ results = <<>>
  /\ actions_csv = <<>>
  /\ launched = {}
  /\ overwritten = {}

vars01 == <<tree, FOLLOW_SYMLINKS, has_relative_to, inventory_defined,
            inventory_data, size_index, hash_index, inode_hash, pc, stack,
            filenames, bi, pj, run, inventory_csv, dupes_csv, failures,
            stat_failed, listed, accepted, hash_calls, first_run, target,
              args_chunk, read_sizes, hash_failed, examined, walk_steps>>

vars == <<vars01, vars03>>

(***************************************************************************)
(* Dictionaries in insertion order: sequences of [key, paths].             *)
(***************************************************************************)
HasKey(d, k) == \E i \in 1..Len(d) : d[i].key = k

KeyIndex(d, k) == CHOOSE i \in 1..Len(d) : d[i].key = k

\* d.setdefault(k, []).append(v).  (Variant: one list object is the default
\* of every key, so that every key ends up with the same list.)
SetDefaultAppendShared(d, k, v) ==
  LET d2 == IF HasKey(d, k) THEN d ELSE Append(d, [key |-> k, paths |-> <<>>])
      shared == Append(d2[1].paths, v)
  IN  [i \in 1..Len(d2) |-> [key |-> d2[i].key, paths |-> shared]]

SetDefaultAppend(d, k, v) ==
  IF HasKey(d, k)
  THEN [d EXCEPT ![KeyIndex(d, k)].paths = Append(@, v)]
  ELSE Append(d, [key |-> k, paths |-> <<v>>])

\* d.get(k)
DictGet(f, k) == IF k \in DOMAIN f THEN f[k] ELSE None

\* d[k] = v
DictPut(f, k, v) == [x \in DOMAIN f \cup {k} |-> IF x = k THEN v ELSE f[x]]

SeqToSet(sq) == {sq[i] : i \in 1..Len(sq)}

(***************************************************************************)
(* Initial state: the module has been imported (lines 27-33 bind           *)
(* size_index, hash_index and inode_hash to empty dicts; nothing binds     *)
(* inventory_data).  The program is either run as a script, inventory_data *)
(* is unbound and the run starts with the validation of lines 222-226, or  *)
(* it is used by a host that has bound inventory_data to an empty list, as *)
(* the docstring of walk_and_inventory presupposes, and that calls         *)
(* walk_and_inventory(target) itself.  The chunk size the run is           *)
(* configured with is one of chunks.                                       *)
(***************************************************************************)
InitWith(chunks) ==
  /\ tree \in Trees
  /\ FOLLOW_SYMLINKS \in BOOLEAN
  /\ has_relative_to \in BOOLEAN
  /\ inventory_defined \in BOOLEAN
  /\ inventory_data = <<>>
  /\ size_index = <<>>
  /\ hash_index = <<>>
  /\ inode_hash = <<>>
  /\ target \in Roots
  /\ args_chunk \in chunks
  /\ pc = IF inventory_defined THEN "walk" ELSE "validate"
  /\ stack = <<target>>
  /\ filenames = <<>>
  /\ bi = 1
  /\ pj = 1
  /\ run = 1
  /\ inventory_csv = <<>>
  /\ dupes_csv = <<>>
  /\ failures = 0
  /\ stat_failed = {}
  /\ listed = <<>>
  /\ accepted = <<>>
  /\ hash_calls = <<>>
  /\ first_run = [inventory |-> <<>>, groups |-> <<>>]
  /\ read_sizes = {}
  /\ hash_failed = {}
  /\ examined = <<>>
  /\ walk_steps = 0
  /\ Idle03

\* A run with the default configuration of the chunk size.
Init == InitWith({READ_CHUNK})

\* A run with any of the chunk sizes.
InitChunk == InitWith(ChunkSizes)

Skippable(p) == is_skippable(tree, FOLLOW_SYMLINKS, has_relative_to, p)

(***************************************************************************)
(* The script, lines 222-226: the target is resolved and must be an        *)
(* existing directory, otherwise the process exits with status 2.  A host  *)
(* that imports the module calls walk_and_inventory itself and these lines *)
(* are not executed.                                                       *)
(***************************************************************************)
ValidTarget(t, p) == p # <<"RuntimeError">> /\ Lookup(t, p, TRUE).type = "dir"

ValidateTarget ==
  /\ pc = "validate"
  /\ LET rp == Resolve(tree, target)
     IN  IF ValidTarget(tree, rp)
         THEN /\ pc' = "walk"
              /\ target' = rp
              /\ stack' = <<rp>>
         ELSE /\ pc' = "exit 2"
              /\ UNCHANGED <<target, stack>>
  /\ UNCHANGED <<tree, FOLLOW_SYMLINKS, has_relative_to, inventory_defined,
                 inventory_data, size_index, hash_index, inode_hash,
                 filenames, bi, pj, run, inventory_csv, dupes_csv, failures,
                 stat_failed, listed, accepted, hash_calls, first_run,
                 args_chunk, vars03, read_sizes, hash_failed, examined, walk_steps>>

(***************************************************************************)
(* walk_and_inventory, lines 81-121.                                       *)
(***************************************************************************)
\* Sub-directories kept by the pruning loop of lines 89-95.
\* (Variant: the loop keeps every sub-directory.)
PrunedNothing(top) == walk_dirnames(tree, top)

Pruned(top) ==
  SelectSeq(walk_dirnames(tree, top), LAMBDA d : ~Skippable(d))

\* (Variant of Descend: the directory just listed is put back on the stack
\* with its sub-directories.)
DescendAndRevisit(top) ==
  Append(SelectSeq(Pruned(top),
                   LAMBDA d : FOLLOW_SYMLINKS \/ ~is_symlink(tree, d)), top)

\* os.walk descends into the kept sub-directories, except links when
\* followlinks is off.
Descend(top) ==
  SelectSeq(Pruned(top),
            LAMBDA d : FOLLOW_SYMLINKS \/ ~is_symlink(tree, d))

\* os.walk yields the next directory (line 85) and lines 86-95 prune its
\* sub-directories.  A directory that cannot be listed is passed over.
WalkDir ==
  /\ pc = "walk"
  /\ filenames = <<>>
  /\ stack # <<>>
  /\ LET top == Head(stack)
     IN  IF Listable(tree, top)
         THEN /\ filenames' = walk_filenames(tree, top)
              /\ stack' = Descend(top) \o Tail(stack)
              /\ listed' = Append(listed, top)
         ELSE /\ filenames' = <<>>
              /\ stack' = Tail(stack)
              /\ listed' = listed
  /\ UNCHANGED <<tree, FOLLOW_SYMLINKS, has_relative_to, inventory_defined,
                 inventory_data, size_index, hash_index, inode_hash, pc,
                 bi, pj, run, inventory_csv, dupes_csv, failures,
                 stat_failed, accepted, hash_calls, first_run, target,
                 args_chunk, vars03, read_sizes, hash_failed, examined>>
  /\ walk_steps' = walk_steps + 1

WalkFrame ==
  /\ UNCHANGED <<tree, FOLLOW_SYMLINKS, has_relative_to, inventory_defined,
                 hash_index, stack, bi, pj, run, inventory_csv, dupes_csv,
                 listed, hash_calls, first_run, target, args_chunk, vars03,
                 read_sizes, hash_failed, examined>>
  /\ walk_steps' = walk_steps + 1

\* Lines 97-100: the entry is skipped by the path filter.
WalkFileSkipped ==
  /\ pc = "walk"
  /\ filenames # <<>>
  /\ Skippable(Head(filenames))
  /\ filenames' = Tail(filenames)
  /\ UNCHANGED <<inventory_data, size_index, inode_hash, pc, failures,
                 stat_failed, accepted>>
  /\ WalkFrame

\* Lines 102-103, 119-121: os.stat raises (the path does not resolve, or
\* the environment denies it) and the entry is passed over.
WalkFileStatError ==
  /\ pc = "walk"
  /\ filenames # <<>>
  /\ LET p == Head(filenames)
     IN  /\ ~Skippable(p)
         /\ \/ /\ IsErr(Lookup(tree, p, FOLLOW_SYMLINKS))
               /\ failures' = failures
            \/ /\ ~IsErr(Lookup(tree, p, FOLLOW_SYMLINKS))
               /\ failures < MaxFailures
               /\ failures' = failures + 1
         /\ stat_failed' = stat_failed \cup {p}
  /\ filenames' = Tail(filenames)
  /\ UNCHANGED <<inventory_data, size_index, inode_hash, pc, accepted>>
  /\ WalkFrame

\* Lines 104-105: not a regular file.
WalkFileNotRegular ==
  /\ pc = "walk"
  /\ filenames # <<>>
  /\ LET p == Head(filenames)
         n == Lookup(tree, p, FOLLOW_SYMLINKS)
     IN  /\ ~Skippable(p)
         /\ ~IsErr(n)
         /\ n.type # "reg"
  /\ filenames' = Tail(filenames)
  /\ UNCHANGED <<inventory_data, size_index, inode_hash, pc, failures,
                 stat_failed, accepted>>
  /\ WalkFrame

\* The value line 117 stores for the inode of a recorded file: no digest yet.
\* (Variant: the walker hashes the file as it records it.)
EagerDigest(t, p) == hash_file(t, p, TRUE)

PresetDigest(t, p) == None

\* Lines 107-117: a regular file is recorded.
Row(p, st) == [path |-> p, size |-> st.st_size, mtime |-> IsoFormat(st.st_mtime)]

WalkFileRecord ==
  /\ pc = "walk"
  /\ filenames # <<>>
  /\ inventory_defined
  /\ LET p  == Head(filenames)
         n  == Lookup(tree, p, FOLLOW_SYMLINKS)
         st == StatOf(n)
     IN  /\ ~Skippable(p)
         /\ ~IsErr(n)
         /\ n.type = "reg"
         /\ inventory_data' = Append(inventory_data, Row(p, st))
         /\ size_index' = SetDefaultAppend(size_index, st.st_size, p)
         /\ inode_hash' = DictPut(inode_hash, <<st.st_dev, st.st_ino>>,
                                  PresetDigest(tree, p))
  /\ accepted' = Append(accepted,
       [path |-> Head(filenames),
        st   |-> StatOf(Lookup(tree, Head(filenames), FOLLOW_SYMLINKS))])
  /\ filenames' = Tail(filenames)
  /\ UNCHANGED <<pc, failures, stat_failed>>
  /\ WalkFrame

\* Line 111 when the name inventory_data is unbound: NameError, which the
\* except clause of line 119 does not catch; the walk and the process end.
WalkFileNameError ==
  /\ pc = "walk"
  /\ filenames # <<>>
  /\ ~inventory_defined
  /\ LET p  == Head(filenames)
         n  == Lookup(tree, p, FOLLOW_SYMLINKS)
     IN  /\ ~Skippable(p)
         /\ ~IsErr(n)
         /\ n.type = "reg"
  /\ accepted' = Append(accepted,
       [path |-> Head(filenames),
        st   |-> StatOf(Lookup(tree, Head(filenames), FOLLOW_SYMLINKS))])
  /\ pc' = "NameError at 111"
  /\ UNCHANGED <<inventory_data, size_index, inode_hash, filenames,
                 failures, stat_failed>>
  /\ WalkFrame

\* os.walk is exhausted: walk_and_inventory returns (line 238 to 239).
WalkReturn ==
  /\ pc = "walk"
  /\ filenames = <<>>
  /\ stack = <<>>
  /\ pc' = "write_inventory"
  /\ UNCHANGED <<tree, FOLLOW_SYMLINKS, has_relative_to, inventory_defined,
                 inventory_data, size_index, hash_index, inode_hash, stack,
                 filenames, bi, pj, run, inventory_csv, dupes_csv, failures,
                 stat_failed, listed, accepted, hash_calls, first_run, target,
                 args_chunk, vars03, read_sizes, hash_failed, examined>>
  /\ walk_steps' = walk_steps + 1

\* write_inventory_csv, lines 154-165; line 162 raises NameError when
\* inventory_data is unbound (only OSError is caught).
write_inventory_csv ==
  /\ pc = "write_inventory"
  /\ IF inventory_defined
     THEN /\ inventory_csv' = inventory_data
          /\ pc' = "detect"
     ELSE /\ inventory_csv' = inventory_csv
          /\ pc' = "NameError at 162"
  /\ UNCHANGED <<tree, FOLLOW_SYMLINKS, has_relative_to, inventory_defined,
                 inventory_data, size_index, hash_index, inode_hash, stack,
                 filenames, bi, pj, run, dupes_csv, failures, stat_failed,
                 listed, accepted, hash_calls, first_run, target,
                 args_chunk, vars03, read_sizes, hash_failed, examined, walk_steps>>

(***************************************************************************)
(* detect_duplicates, lines 123-152.  bi is the position of the outer loop *)
(* in size_index.items(), pj the position of the inner loop in its paths.  *)
(***************************************************************************)
InBucket == pc = "detect" /\ bi <= Len(size_index)

\* (Variant of Paths: the bucket is gone through from its last path.)
PathsReversed ==
  [i \in 1..Len(size_index[bi].paths) |->
     size_index[bi].paths[Len(size_index[bi].paths) + 1 - i]]

Paths == size_index[bi].paths

\* The prefilter of line 126.
\* (Variant: the comparison is off by one.)
UniqueSizeOffByOne(paths) == Len(paths) <= 2

\* (Variant: only an empty bucket is passed over.)
UniqueSizeEmptyOnly(paths) == Len(paths) < 1

UniqueSize(paths) == Len(paths) < 2

NextBi == IF pj = Len(Paths) THEN bi + 1 ELSE bi
NextPj == IF pj = Len(Paths) THEN 1 ELSE pj + 1

\* (Variant: a path whose stat or read fails loses its inventory row.)
DetectFrameDropsFailed ==
  /\ inventory_data' =
       IF failures' > failures
       THEN SelectSeq(inventory_data, LAMBDA row : row.path # Paths[pj])
       ELSE inventory_data
  /\ UNCHANGED <<tree, FOLLOW_SYMLINKS, has_relative_to, inventory_defined,
                 size_index, pc, stack, filenames, run, inventory_csv,
                 dupes_csv, stat_failed, listed, accepted, first_run,
                 target, args_chunk, vars03, walk_steps>>

DetectFrame ==
  UNCHANGED <<tree, FOLLOW_SYMLINKS, has_relative_to, inventory_defined,
              inventory_data, size_index, pc, stack, filenames, run,
              inventory_csv, dupes_csv, stat_failed, listed, accepted,
              first_run, target, args_chunk, vars03, walk_steps>>

\* Lines 126-127: a bucket with a single path is passed over.
DetectSkipBucket ==
  /\ InBucket
  /\ UniqueSize(Paths)
  /\ bi' = bi + 1
  /\ pj' = 1
  /\ UNCHANGED <<hash_index, inode_hash, failures, hash_calls, read_sizes,
                 hash_failed, examined>>
  /\ DetectFrame

\* Lines 131, 145-147: os.stat raises and the path is passed over.
DetectStatError ==
  /\ InBucket
  /\ ~UniqueSize(Paths)
  /\ \/ /\ IsErr(Lookup(tree, Paths[pj], FOLLOW_SYMLINKS))
        /\ failures' = failures
     \/ /\ ~IsErr(Lookup(tree, Paths[pj], FOLLOW_SYMLINKS))
        /\ failures < MaxFailures
        /\ failures' = failures + 1
  /\ bi' = NextBi
  /\ pj' = NextPj
  /\ examined' = Append(examined, Paths[pj])
  /\ UNCHANGED <<hash_index, inode_hash, hash_calls, read_sizes, hash_failed>>
  /\ DetectFrame

InodeKey(p) ==
  LET st == StatOf(Lookup(tree, p, FOLLOW_SYMLINKS))
  IN  <<st.st_dev, st.st_ino>>

\* "if digest is None" at line 136.
NeedsHash(key) == DictGet(inode_hash, key) = None

\* "if not digest" at line 140.
\* (Variant: only the empty string counts, None does not.)
FalsyEmptyOnly(digest) == digest = <<>>

Falsy(digest) == digest = None \/ digest = <<>>

\* The key of the group a path joins at line 143: its digest.  (Variant:
\* the size of its bucket, as if the size prefilter were the whole test.)
GroupKeyBySize(digest, size) == <<HASH_ALGO, <<size>>>>

GroupKey(digest, size) == digest

\* Lines 135, 140-143: the digest cached for the inode is reused.
DetectCached ==
  /\ InBucket
  /\ ~UniqueSize(Paths)
  /\ LET p   == Paths[pj]
         key == InodeKey(p)
         digest == DictGet(inode_hash, key)
     IN  /\ ~IsErr(Lookup(tree, p, FOLLOW_SYMLINKS))
         /\ ~NeedsHash(key)
         /\ hash_index' =
              IF Falsy(digest) THEN hash_index
              ELSE SetDefaultAppend(hash_index,
                                    GroupKey(digest, size_index[bi].key), p)
  /\ bi' = NextBi
  /\ pj' = NextPj
  /\ examined' = Append(examined, Paths[pj])
  /\ UNCHANGED <<inode_hash, failures, hash_calls, read_sizes, hash_failed>>
  /\ DetectFrame

\* Lines 136-143: the file is hashed, the result (a digest or None) is
\* stored for its inode, and the path joins the group of its digest.
DetectHash ==
  /\ InBucket
  /\ ~UniqueSize(Paths)
  /\ LET p   == Paths[pj]
         key == InodeKey(p)
     IN  /\ ~IsErr(Lookup(tree, p, FOLLOW_SYMLINKS))
         /\ NeedsHash(key)
         /\ \E readable \in BOOLEAN :
              LET digest == hash_file(tree, p, readable)
              IN  /\ readable \/ failures < MaxFailures
                  /\ failures' = IF readable THEN failures ELSE failures + 1
                  /\ hash_calls' =
                       Append(hash_calls, [key |-> key, path |-> p, run |-> run])
                  /\ read_sizes' =
                       read_sizes \cup SeqToSet(ReadRequests(tree, p, readable, READ_CHUNK))
                  /\ hash_failed' =
                       IF digest = None THEN hash_failed \cup {p} ELSE hash_failed
                  /\ inode_hash' = DictPut(inode_hash, key, digest)
                  /\ hash_index' =
                       IF Falsy(digest) THEN hash_index
                       ELSE SetDefaultAppend(hash_index,
                              GroupKey(digest, size_index[bi].key), p)
  /\ bi' = NextBi
  /\ pj' = NextPj
  /\ examined' = Append(examined, Paths[pj])
  /\ DetectFrame

\* Lines 149-152: groups with fewer than two paths are deleted, and
\* detect_duplicates returns.  (Variant: the deletion is left out.)
KeepAllGroups(d) == d

KeepGroups(d) == SelectSeq(d, LAMBDA g : ~(Len(g.paths) < 2))

DetectPrune ==
  /\ pc = "detect"
  /\ bi > Len(size_index)
  /\ hash_index' = KeepGroups(hash_index)
  /\ pc' = "write_dupes"
  /\ bi' = 1
  /\ pj' = 1
  /\ UNCHANGED <<tree, FOLLOW_SYMLINKS, has_relative_to, inventory_defined,
                 inventory_data, size_index, inode_hash, stack, filenames,
                 run, inventory_csv, dupes_csv, failures, stat_failed,
                 listed, accepted, hash_calls, first_run, target,
                 args_chunk, vars03, read_sizes, hash_failed, examined, walk_steps>>

\* write_dupes_csv, lines 167-182: one row per member of each group of two
\* or more paths.
RECURSIVE DupeRows(_)
DupeRows(d) ==
  IF d = <<>> THEN <<>>
  ELSE LET g == Head(d)
           rows == IF Len(g.paths) < 2 THEN <<>>
                   ELSE [i \in 1..Len(g.paths) |->
                           [digest |-> g.key, path |-> g.paths[i]]]
       IN  rows \o DupeRows(Tail(d))

write_dupes_csv ==
  /\ pc = "write_dupes"
  /\ dupes_csv' = DupeRows(hash_index)
  /\ pc' = "done"
  /\ first_run' = IF run = 1
                  THEN [inventory |-> inventory_data, groups |-> hash_index]
                  ELSE first_run
  /\ UNCHANGED <<tree, FOLLOW_SYMLINKS, has_relative_to, inventory_defined,
                 inventory_data, size_index, hash_index, inode_hash, stack,
                 filenames, bi, pj, run, inventory_csv, failures,
                 stat_failed, listed, accepted, hash_calls, target,
                 args_chunk, vars03, read_sizes, hash_failed, examined, walk_steps>>

\* The host calls walk_and_inventory and detect_duplicates once more in the
\* same process, on the same tree.  Nothing in the module empties the
\* module-level indices.
Rerun ==
  /\ pc = "done"
  /\ run <= MaxReruns
  /\ run' = run + 1
  /\ pc' = "walk"
  /\ stack' = <<target>>
  /\ stat_failed' = {}
  /\ accepted' = <<>>
  /\ listed' = <<>>
  /\ hash_failed' = {}
  /\ examined' = <<>>
  /\ walk_steps' = 0
  /\ UNCHANGED <<tree, FOLLOW_SYMLINKS, has_relative_to, inventory_defined,
                 inventory_data, size_index, hash_index, inode_hash,
                 filenames, bi, pj, inventory_csv, dupes_csv, failures,
                 hash_calls, first_run, target, args_chunk, vars03, read_sizes>>

Next ==
  \/ ValidateTarget
  \/ WalkDir
  \/ WalkFileSkipped
  \/ WalkFileStatError
  \/ WalkFileNotRegular
  \/ WalkFileRecord
  \/ WalkFileNameError
  \/ WalkReturn
  \/ write_inventory_csv
  \/ DetectSkipBucket
  \/ DetectStatError
  \/ DetectCached
  \/ DetectHash
  \/ DetectPrune
  \/ write_dupes_csv

Spec == Init /\ [][Next]_vars

NextRerun == Next \/ Rerun

SpecRerun == Init /\ [][NextRerun]_vars

SpecChunk == InitChunk /\ [][Next]_vars

(***************************************************************************)
(* Module 03 (VAL1S_2025_MODULE_03.py): the plan list and its execution by *)
(* a pool of threads, lines 337-345, each running run_ffmpeg, lines        *)
(* 239-269.  A file path is [dir, stem, ext].                              *)
(***************************************************************************)
MaxPlans == 2
MaxJobs == 2

root_in == <<"in">>
out_root == <<"out">>

Sources ==
  { [dir |-> <<"in">>,        stem |-> "a", ext |-> ".mov"],
    [dir |-> <<"in">>,        stem |-> "a", ext |-> ".mp4"],
    [dir |-> <<"in", "sub">>, stem |-> "a", ext |-> ".mov"],
    [dir |-> <<"other">>,     stem |-> "a", ext |-> ".mov"],
    [dir |-> <<"in">>,        stem |-> "b", ext |-> ".wav"] }

\* Lines 87-95: the class of a row without a media_class column.
classify_from_csv_row(src) ==
  IF src.ext \in {".mov", ".mp4", ".mkv", ".avi", ".mxf", ".mts", ".m2ts",
                  ".mpg", ".mpeg"} THEN "video"
  ELSE IF src.ext \in {".wav", ".aif", ".aiff", ".flac", ".mp3", ".m4a"}
       THEN "audio"
  ELSE IF src.ext \in {".tif", ".tiff", ".png", ".jpg", ".jpeg", ".bmp",
                       ".jp2"} THEN "image"
  ELSE "other"

\* Lines 28-31: src relative to root_in, or just its file name.
RelDir(src, root) ==
  IF Len(src.dir) >= Len(root) /\ SubSeq(src.dir, 1, Len(root)) = root
  THEN SubSeq(src.dir, Len(root) + 1, Len(src.dir))
  ELSE <<>>

\* Lines 26-38.
target_path(out, src, root, media_class) ==
  [dir  |-> out \o RelDir(src, root),
   stem |-> src.stem,
   ext  |-> CASE media_class = "video" -> ".mkv"
              [] media_class = "audio" -> ".wav"
              [] media_class = "image" -> ".tiff"
              [] OTHER -> src.ext]

\* Lines 173-204: the record planned for a row of a supported class.
plan_for_row(src) ==
  [path_in  |-> src,
   path_out |-> target_path(out_root, src, root_in,
                            classify_from_csv_row(src))]

OutPaths == {plan_for_row(src).path_out : src \in Sources}

\* The plan lists: up to MaxPlans different input files in any order.
PlanLists ==
  UNION {{ps \in [1..n -> Sources] : \A i, j \in 1..n : i # j => ps[i] # ps[j]}
           : n \in 1..MaxPlans}

Absent == [exists |-> FALSE, size |-> 0, by |-> 0]

\* A file that was there before the run: empty, or with bytes in it.
OldFiles == {[exists |-> TRUE, size |-> n, by |-> 0] : n \in {0, 1}}

\* Module 01 is not running.
Idle01 ==
  /\ tree = CHOOSE t \in Trees : TRUE
  /\ FOLLOW_SYMLINKS = FALSE
  /\ has_relative_to = TRUE
  /\ inventory_defined = FALSE
  /\ inventory_data = <<>>
  /\ size_index = <<>>
  /\ hash_index = <<>>
  /\ inode_hash = <<>>
  /\ target = <<n_var>>
  /\ args_chunk = READ_CHUNK
  /\ pc = "not started"
  /\ stack = <<>>
  /\ filenames = <<>>
  /\ bi = 1
  /\ pj = 1
  /\ run = 1
  /\ inventory_csv = <<>>
  /\ dupes_csv = <<>>
  /\ failures = 0
  /\ stat_failed = {}
  /\ listed = <<>>
  /\ accepted = <<>>
  /\ hash_calls = <<>>
  /\ first_run = [inventory |-> <<>>, groups |-> <<>>]
  /\ read_sizes = {}
  /\ hash_failed = {}
  /\ examined = <<>>
  /\ walk_steps = 0

\* The state at line 337: the plan is made, --execute was given, and no
\* record has been handed to a thread yet.
Init03 ==
  /\ Idle01
  /\ \E srcs \in PlanLists :
       plans = [i \in 1..Len(srcs) |-> plan_for_row(srcs[i])]
  /\ force \in BOOLEAN
  /\ jobs \in 0..MaxJobs
  /\ in_files \in {Sources, Sources \ {plans[1].path_in}}
  /\ out_files \in [OutPaths -> {Absent} \cup OldFiles]
  /\ \A o \in OutPaths :
       (\A i \in 1..Len(plans) : plans[i].path_out # o) => out_files[o] = Absent
  /\ job = [i \in 1..Len(plans) |-> "queued"]
  /\ status = [i \in 1..Len(plans) |-> [status |-> "planned", message |-> ""]]
  /\ results = <<>>
  /\ actions_csv = <<>>
  /\ launched = {}
  /\ overwritten = {}

\* Line 340: max_workers.
Workers == IF jobs < 1 THEN 1 ELSE jobs

\* The call of run_ffmpeg for record i is on a thread.
Running(i) == job[i] \in {"start", "launch", "writing", "written"}

\* run_ffmpeg returns rec, and line 343 collects it.
Return(i, st, msg) ==
  /\ status' = [status EXCEPT ![i] = [status |-> st, message |-> msg]]
  /\ job' = [job EXCEPT ![i] = "returned"]
  /\ results' = Append(results, i)

\* Lines 340-341: a free thread of the pool takes the next submitted call.
Submit(i) ==
  /\ job[i] = "queued"
  /\ \A j \in 1..(i - 1) : job[j] # "queued"
  /\ Cardinality({j \in 1..Len(plans) : Running(j)}) < Workers
  /\ job' = [job EXCEPT ![i] = "start"]
  /\ UNCHANGED <<plans, force, jobs, in_files, out_files, status, results,
                 actions_csv, launched, overwritten>>
  /\ UNCHANGED vars01

\* Lines 243-246.
RunInputMissing(i) ==
  /\ job[i] = "start"
  /\ plans[i].path_in \notin in_files
  /\ Return(i, "error", "input missing")
  /\ UNCHANGED <<plans, force, jobs, in_files, out_files, actions_csv,
                 launched, overwritten>>
  /\ UNCHANGED vars01

\* The test of line 247.
OutputExists(i) ==
  /\ out_files[plans[i].path_out].exists
  /\ out_files[plans[i].path_out].size > 0
  /\ ~force

\* Lines 247-250.
RunOutputExists(i) ==
  /\ job[i] = "start"
  /\ plans[i].path_in \in in_files
  /\ OutputExists(i)
  /\ Return(i, "skipped", "output exists")
  /\ UNCHANGED <<plans, force, jobs, in_files, out_files, actions_csv,
                 launched, overwritten>>
  /\ UNCHANGED vars01

\* Lines 243, 247, 252-258: both tests pass and the logs are opened.
RunPassChecks(i) ==
  /\ job[i] = "start"
  /\ plans[i].path_in \in in_files
  /\ ~OutputExists(i)
  /\ job' = [job EXCEPT ![i] = "launch"]
  /\ UNCHANGED <<plans, force, jobs, in_files, out_files, status, results,
                 actions_csv, launched, overwritten>>
  /\ UNCHANGED vars01

\* Lines 266-268: opening a log or starting the process raised.
RunException(i) ==
  /\ job[i] = "launch"
  /\ Return(i, "error", "exception")
  /\ UNCHANGED <<plans, force, jobs, in_files, out_files, actions_csv,
                 launched, overwritten>>
  /\ UNCHANGED vars01

\* Line 259: subprocess.run starts "ffmpeg -y ... path_out", which creates
\* or truncates the output file.
FfmpegOpen(i) ==
  /\ job[i] = "launch"
  /\ LET o == plans[i].path_out
     IN  /\ overwritten' =
              IF out_files[o].exists /\ out_files[o].size > 0
              THEN overwritten \cup {[rec |-> i, path |-> o]}
              ELSE overwritten
         /\ out_files' =
              [out_files EXCEPT ![o] = [exists |-> TRUE, size |-> 0, by |-> i]]
  /\ launched' = launched \cup {i}
  /\ job' = [job EXCEPT ![i] = "writing"]
  /\ UNCHANGED <<plans, force, jobs, in_files, status, results, actions_csv>>
  /\ UNCHANGED vars01

\* The ffmpeg process of record i writes its output.
FfmpegWrite(i) ==
  /\ job[i] = "writing"
  /\ out_files' = [out_files EXCEPT ![plans[i].path_out] =
                     [exists |-> TRUE, size |-> 1, by |-> i]]
  /\ job' = [job EXCEPT ![i] = "written"]
  /\ UNCHANGED <<plans, force, jobs, in_files, status, results, actions_csv,
                 launched, overwritten>>
  /\ UNCHANGED vars01

\* Lines 259-265: the process ends with a return code, and the record is
\* "ok" when the code is 0 and the output is there with bytes in it.
FfmpegExit(i) ==
  /\ job[i] \in {"writing", "written"}
  /\ \E returncode \in {0, 1} :
       IF /\ returncode = 0
          /\ out_files[plans[i].path_out].exists
          /\ out_files[plans[i].path_out].size > 0
       THEN Return(i, "ok", "")
       ELSE Return(i, "error", <<"ffmpeg exit", returncode>>)
  /\ UNCHANGED <<plans, force, jobs, in_files, out_files, actions_csv,
                 launched, overwritten>>
  /\ UNCHANGED vars01

\* Line 345, lines 271-277: the records in order of completion.
write_actions_csv ==
  /\ actions_csv = <<>>
  /\ \A i \in 1..Len(plans) : job[i] = "returned"
  /\ actions_csv' =
       [k \in 1..Len(results) |->
          [path_in  |-> plans[results[k]].path_in,
           path_out |-> plans[results[k]].path_out,
           status   |-> status[results[k]].status,
           message  |-> status[results[k]].message]]
  /\ UNCHANGED <<plans, force, jobs, in_files, out_files, job, status,
                 results, launched, overwritten>>
  /\ UNCHANGED vars01

Next03 ==
  \/ \E i \in 1..Len(plans) : Submit(i)
  \/ \E i \in 1..Len(plans) : RunInputMissing(i)
  \/ \E i \in 1..Len(plans) : RunOutputExists(i)
  \/ \E i \in 1..Len(plans) : RunPassChecks(i)
  \/ \E i \in 1..Len(plans) : RunException(i)
  \/ \E i \in 1..Len(plans) : FfmpegOpen(i)
  \/ \E i \in 1..Len(plans) : FfmpegWrite(i)
  \/ \E i \in 1..Len(plans) : FfmpegExit(i)
  \/ write_actions_csv

Spec03 == Init03 /\ [][Next03]_vars

(***************************************************************************)
(* Properties.                                                             *)
(***************************************************************************)
\* detect_duplicates has returned.
DetectOver == pc \in {"write_dupes", "done"}

\* The walk is over: walk_and_inventory has returned or raised.
WalkOver == pc \notin {"validate", "walk"}

InventoryPaths == {inventory_data[i].path : i \in 1..Len(inventory_data)}

RowsOf(p) == {i \in 1..Len(inventory_data) : inventory_data[i].path = p}

\* The size the walker recorded for p.
RecordedSize(p) == inventory_data[CHOOSE i \in RowsOf(p) : TRUE].size

\* The digest of the bytes that p holds.
ContentDigest(p) == hash_file(tree, p, TRUE)

GroupsOf(p) == {i \in 1..Len(hash_index) : p \in SeqToSet(hash_index[i].paths)}

BucketsOf(p) == {i \in 1..Len(size_index) : p \in SeqToSet(size_index[i].paths)}

\* C1: within one run hash_file is called at most once for any
\* (st_dev, st_ino) key, also when the first call for the key failed.
C1_HashedAtMostOncePerKey ==
  \A i, j \in 1..Len(hash_calls) :
    (hash_calls[i].key = hash_calls[j].key /\ hash_calls[i].run = hash_calls[j].run)
      => i = j

\* C2: after detect_duplicates has returned, the paths of one group of
\* hash_index all have the size the walker recorded for them in common and
\* hold bytes with the same digest.
C2_GroupSameSizeAndDigest ==
  DetectOver =>
    \A i \in 1..Len(hash_index) :
      \A p, q \in SeqToSet(hash_index[i].paths) :
        /\ RowsOf(p) # {}
        /\ RowsOf(q) # {}
        /\ RecordedSize(p) = RecordedSize(q)
        /\ ContentDigest(p) = ContentDigest(q)
        /\ ContentDigest(p) # None

\* A run has ended with a group whose members are links to different inodes.
C2_Witness ==
  /\ pc = "done"
  /\ \E i \in 1..Len(hash_index) :
       \E p, q \in SeqToSet(hash_index[i].paths) :
         Lookup(tree, p, TRUE).ino # Lookup(tree, q, TRUE).ino

\* C3: after detect_duplicates has returned, every digest of hash_index
\* maps to at least two paths, and the duplicate report lists exactly the
\* members of these groups.
C3_GroupsHaveTwoPaths ==
  /\ DetectOver =>
       \A i \in 1..Len(hash_index) :
         /\ Len(hash_index[i].paths) >= 2
         /\ Cardinality(SeqToSet(hash_index[i].paths)) >= 2
  /\ pc = "done" =>
       /\ \A r \in 1..Len(dupes_csv) :
            \E i \in 1..Len(hash_index) :
              /\ hash_index[i].key = dupes_csv[r].digest
              /\ dupes_csv[r].path \in SeqToSet(hash_index[i].paths)
       /\ \A i \in 1..Len(hash_index) :
            \A p \in SeqToSet(hash_index[i].paths) :
              \E r \in 1..Len(dupes_csv) :
                dupes_csv[r] = [digest |-> hash_index[i].key, path |-> p]

\* A run has ended in which a file was hashed, its digest got a group of
\* one path, and that group is gone.
C3_Witness ==
  /\ pc = "done"
  /\ \E k \in DOMAIN inode_hash :
       /\ inode_hash[k] # None
       /\ ~HasKey(hash_index, inode_hash[k])

\* C4: after detect_duplicates has returned, no path is in more than one
\* group of hash_index.
C4_NoPathInTwoGroups ==
  DetectOver =>
    \A i, j \in 1..Len(hash_index) :
      i # j => SeqToSet(hash_index[i].paths) \cap SeqToSet(hash_index[j].paths) = {}

\* A run has ended with two duplicate groups.
C4_Witness == pc = "done" /\ Len(hash_index) >= 2

\* The paths below top: the entries of top and, through the entries that
\* are directories (or links to directories, when links are followed), what
\* lies below them.
RECURSIVE PathsUnder(_, _)
PathsUnder(top, fuel) ==
  LET es   == Listing(tree, top)
      kids == {Append(top, es[i].name) : i \in 1..Len(es)}
  IN  kids \cup
      UNION {IF fuel = 0 THEN {} ELSE PathsUnder(k, fuel - 1) :
               k \in {x \in kids : /\ WalkIsDir(tree, x)
                                    /\ (FOLLOW_SYMLINKS \/ ~is_symlink(tree, x))}}

ReachablePaths == PathsUnder(target, MAXSYMLINKS + 2)

\* rp is R or lies beneath R, component by component.
Beneath(rp, R) ==
  rp = R \/ (Len(rp) > Len(R) /\ \A i \in 1..Len(R) : rp[i] = R[i])

\* p, or a directory between the scanned root and p, has a skip-listed
\* basename or extension or resolves into an excluded root.
SkipListed(p) ==
  \E k \in (Len(target) + 1)..Len(p) :
    LET q == SubSeq(p, 1, k)
    IN  \/ Last(q) \in SKIP_NAMES
        \/ Lower(Suffix(Last(q))) \in SKIP_EXTS
        \/ \E R \in SKIP_ABS : Beneath(Resolve(tree, q), R)

\* C5: after the walk, a path reachable under the scanned root has a record
\* in the inventory if and only if it is a regular file, is not skip-listed
\* (subtree, basename, extension), and is not a symlink unless symlinks are
\* followed.
C5_InventoryIffAccepted ==
  WalkOver =>
    \A p \in ReachablePaths :
      (RowsOf(p) # {}) <=>
        /\ Lookup(tree, p, TRUE).type = "reg"
        /\ ~SkipListed(p)
        /\ (~is_symlink(tree, p) \/ FOLLOW_SYMLINKS)

\* The paths is_skippable has been applied to by the walker: the entries of
\* the directories listed so far.
EntryPaths(top) ==
  LET es == Listing(tree, top)
  IN  {Append(top, es[j].name) : j \in 1..Len(es)}

FilteredPaths == UNION {EntryPaths(listed[i]) : i \in 1..Len(listed)}

\* C6: the prefix rule of is_skippable holds for a resolved path and an
\* excluded root R exactly when the path is R or lies beneath R component
\* by component.
C6_PrefixRuleComponentWise ==
  \A p \in FilteredPaths :
    LET rp == Resolve(tree, p)
    IN  rp # <<"RuntimeError">> =>
          \A R \in SKIP_ABS :
            PrefixRule(has_relative_to, rp, R) <=> Beneath(rp, R)

AcceptedPaths == {accepted[i].path : i \in 1..Len(accepted)}

\* Two accepted entries that are hard links to one inode (neither is a
\* symbolic link), with no other inventoried path of their size.
HardLinks(x, y) ==
  /\ x.path # y.path
  /\ x.st.st_dev = y.st.st_dev
  /\ x.st.st_ino = y.st.st_ino
  /\ ~is_symlink(tree, x.path)
  /\ ~is_symlink(tree, y.path)

LoneHardLinks(x, y) ==
  /\ WalkOver
  /\ HardLinks(x, y)
  /\ \A i \in 1..Len(inventory_data) :
       inventory_data[i].path \notin {x.path, y.path} =>
         inventory_data[i].size # x.st.st_size

\* C7 as stated: two hard links alone in their size have a row each, and
\* after detect_duplicates neither is in a duplicate group.
C7_HardLinksInNoGroup ==
  \A x, y \in SeqToSet(accepted) :
    LoneHardLinks(x, y) =>
      /\ Cardinality(RowsOf(x.path)) = 1
      /\ Cardinality(RowsOf(y.path)) = 1
      /\ DetectOver => (GroupsOf(x.path) = {} /\ GroupsOf(y.path) = {})

\* C7 as amended: two hard links alone in their size have a row each, and
\* after detect_duplicates they are together in one group that holds just
\* the two of them, or, when a stat or read of the run failed, possibly in
\* no group at all.
C7_HardLinksGroupedTogether ==
  \A x, y \in SeqToSet(accepted) :
    LoneHardLinks(x, y) =>
      /\ Cardinality(RowsOf(x.path)) = 1
      /\ Cardinality(RowsOf(y.path)) = 1
      /\ DetectOver =>
           /\ GroupsOf(x.path) = GroupsOf(y.path)
           /\ \A i \in GroupsOf(x.path) :
                SeqToSet(hash_index[i].paths) = {x.path, y.path}
           /\ failures = 0 => GroupsOf(x.path) # {}

\* A run has ended with two lone hard links in a duplicate group.
C7_Witness ==
  /\ pc = "done"
  /\ \E x, y \in SeqToSet(accepted) :
       /\ LoneHardLinks(x, y)
       /\ GroupsOf(x.path) # {}
       /\ GroupsOf(x.path) = GroupsOf(y.path)

\* C8: a second scan and duplicate detection of the unchanged tree, with no
\* failing call, ends with the inventory and the duplicate groups of the
\* first.
C8_SecondRunSame ==
  (run = 2 /\ pc = "done" /\ failures = 0) =>
    /\ inventory_data = first_run.inventory
    /\ hash_index = first_run.groups

\* C9: when the walk is over every accepted file has exactly one record,
\* is listed in size_index under the recorded size and under no other, and
\* size_index lists only paths that have a record.
C9_AcceptedRecorded ==
  WalkOver =>
    /\ \A p \in AcceptedPaths :
         /\ Cardinality(RowsOf(p)) = 1
         /\ \A i \in 1..Len(size_index) :
              (i \in BucketsOf(p)) <=> (size_index[i].key = RecordedSize(p))
    /\ \A i \in 1..Len(size_index) :
         SeqToSet(size_index[i].paths) \subseteq InventoryPaths

\* C10: an entry whose stat failed during the walk is in neither the
\* inventory nor size_index, and the walk that met it ends with every
\* remaining entry and directory processed, not aborted by an entry.
C10_StatFailureDoesNotAbort ==
  /\ \A p \in stat_failed : RowsOf(p) = {} /\ BucketsOf(p) = {}
  /\ (stat_failed # {} /\ WalkOver) =>
       /\ filenames = <<>>
       /\ stack = <<>>
       /\ pc # "NameError at 111"

\* The paths the loop of line 129 takes in a whole pass over size_index:
\* those of the buckets of two or more paths, bucket after bucket.
RECURSIVE Candidates(_)
Candidates(d) ==
  IF d = <<>> THEN <<>>
  ELSE (IF UniqueSize(Head(d).paths) THEN <<>> ELSE Head(d).paths)
         \o Candidates(Tail(d))

\* C11: a path whose hash_file call returned no digest (the file could not
\* be read) is in no duplicate group, the failure puts the run in no error
\* state, and when detect_duplicates has returned its loop has taken every
\* path of every bucket of two or more paths.
C11_HashFailureExcludesPath ==
  /\ \A p \in hash_failed : GroupsOf(p) = {}
  /\ hash_failed # {} => pc \in {"detect", "write_dupes", "done"}
  /\ DetectOver => examined = Candidates(size_index)

\* A run has ended in which a hash failed and a path examined after the
\* failure is in a duplicate group.
C11_Witness ==
  /\ pc = "done"
  /\ \E i, j \in 1..Len(examined) :
       /\ i < j
       /\ examined[i] \in hash_failed
       /\ GroupsOf(examined[j]) # {}

\* The scan has done no work: no directory listed, no entry stat'ed, no
\* file hashed.
NoWorkDone ==
  /\ listed = <<>>
  /\ accepted = <<>>
  /\ stat_failed = {}
  /\ hash_calls = <<>>

\* The scan has returned to its caller as if it had succeeded.
ReturnedNormally ==
  pc \in {"write_inventory", "NameError at 162", "detect", "write_dupes", "done"}

\* C12: when the root of the scan does not exist or is not a directory, the
\* scan does no listing, no stat and no hashing, writes no report, and does
\* not return normally: it ends with a fatal error.
C12_InvalidRootFatal ==
  ~ValidTarget(tree, target) => (NoWorkDone /\ ~ReturnedNormally)

\* The root is a directory and every entry directly under it is skip-listed.
AllSkipped ==
  /\ ValidTarget(tree, target)
  /\ Listing(tree, target) # <<>>
  /\ \A i \in 1..Len(Listing(tree, target)) :
       SkipListed(Append(target, Listing(tree, target)[i].name))

\* The run has been ended by an exception.
Raised == pc \in {"NameError at 111", "NameError at 162"}

\* C13: when every entry directly under the root is skip-listed, the run
\* raises no error, and it ends with an empty inventory and an empty
\* duplicate report.
C13_AllSkippedRunIsClean ==
  AllSkipped =>
    /\ ~Raised
    /\ pc = "done" =>
         /\ inventory_data = <<>>
         /\ inventory_csv = <<>>
         /\ hash_index = <<>>
         /\ dupes_csv = <<>>

\* The body of is_skippable raises for p: the symlink and name rules do not
\* return, and Path.resolve meets a symlink loop (RuntimeError).
FilterRaises(p) ==
  /\ FOLLOW_SYMLINKS \/ ~is_symlink(tree, p)
  /\ ~NameRule(Last(p))
  /\ Resolve(tree, p) = <<"RuntimeError">>

\* walk_and_inventory is running, or has just returned or raised.
InWalk == pc \in {"walk", "write_inventory", "NameError at 111"}

\* C14: a path for which inspecting or resolving raises inside is_skippable
\* gets the answer "skip": throughout the walk and at its end the walker has
\* neither stat'ed, recorded nor listed it, and the exception ends nothing.
C14_FilterFailSafe ==
  InWalk =>
    \A p \in FilteredPaths :
      FilterRaises(p) =>
        /\ Skippable(p)
        /\ p \notin AcceptedPaths
        /\ p \notin stat_failed
        /\ p \notin SeqToSet(listed)
        /\ RowsOf(p) = {}

\* A walk over a directory holding a symlink loop has returned, with links
\* followed.
C14_Witness ==
  /\ pc = "write_inventory"
  /\ \E p \in FilteredPaths : FilterRaises(p)

\* C15: every read hash_file issues asks for the chunk size the run is
\* configured with.
C15_ReadsUseConfiguredChunk ==
  \A n \in read_sizes : n = args_chunk

\* The size of what lies below directory top in the file system: one for
\* top itself, one for each of its entries and, for each entry that is a
\* directory (through a link only when links are followed), the size of what
\* lies below it.  A path the kernel refuses (ELOOP) is no directory.
RECURSIVE WalkSize(_), SumWalkSizes(_)
WalkSize(top) ==
  LET es == Listing(tree, top)
  IN  IF es = <<>> THEN 1
      ELSE 1 + Len(es)
             + SumWalkSizes(SelectSeq(walk_dirnames(tree, top),
                              LAMBDA d : FOLLOW_SYMLINKS \/ ~is_symlink(tree, d)))

SumWalkSizes(ds) ==
  IF ds = <<>> THEN 0 ELSE WalkSize(Head(ds)) + SumWalkSizes(Tail(ds))

\* C16: walk_and_inventory terminates on every tree, also on those with a
\* symlink cycle, with links followed or not: a walk that has not ended has
\* taken fewer steps (directories listed, entries handled) than a natural
\* number fixed by the file system below its root.
C16_WalkTerminates == pc = "walk" => walk_steps < 1 + WalkSize(target)

\* The walk of a tree whose link /var/s points to its own parent has
\* returned, with links followed, after listing a directory through the link.
C16_Witness ==
  /\ pc = "write_inventory"
  /\ FOLLOW_SYMLINKS
  /\ tree.link = <<n_var>>
  /\ \E i \in 1..Len(listed) : n_s \in SeqToSet(listed[i])

\* No file has been hashed: hash_file has not been called and no digest is
\* stored anywhere.
NothingHashed ==
  /\ hash_calls = <<>>
  /\ read_sizes = {}
  /\ hash_index = <<>>
  /\ \A k \in DOMAIN inode_hash : inode_hash[k] = None

\* C17: the phases are ordered.  Until the walk is over nothing is hashed;
\* once it is over the inventory and size_index get no further append, so
\* every hash_file call comes after the last append; hash_file is called
\* from detect_duplicates only, one call at a time: a step makes one call
\* and has its result before the next call is made.
C17_PhasesOrdered ==
  /\ [](~WalkOver => NothingHashed)
  /\ [][WalkOver =>
          (inventory_data' = inventory_data /\ size_index' = size_index)]_vars
  /\ [][hash_calls' # hash_calls =>
          /\ pc = "detect"
          /\ Len(hash_calls') = Len(hash_calls) + 1]_vars

\* A run has ended in which several files were hashed, after a walk that
\* recorded several files.
C17_Witness ==
  /\ pc = "done"
  /\ Len(hash_calls) >= 2
  /\ Len(inventory_data) >= 3

HashedPaths == {hash_calls[k].path : k \in 1..Len(hash_calls)}

\* The recorded size of row i is shared by no other inventoried path.
LoneSize(i) ==
  \A j \in 1..Len(inventory_data) :
    inventory_data[j].path # inventory_data[i].path =>
      inventory_data[j].size # inventory_data[i].size

\* C18: a path whose recorded size no other inventoried path has is never
\* passed to hash_file and is in no duplicate group.
C18_UniqueSizeNeverHashed ==
  \A i \in 1..Len(inventory_data) :
    LoneSize(i) =>
      /\ inventory_data[i].path \notin HashedPaths
      /\ GroupsOf(inventory_data[i].path) = {}

\* A run has ended in which files were hashed and one inventoried file, of
\* a size of its own, was not.
C18_Witness ==
  /\ pc = "done"
  /\ hash_calls # <<>>
  /\ \E i \in 1..Len(inventory_data) : LoneSize(i)

\* The sub-directories the walker has met for which is_skippable returned
\* true.
SkippedDirs == {d \in FilteredPaths : WalkIsDir(tree, d) /\ Skippable(d)}

\* Path p lies beneath directory d.
Under(p, d) == Len(p) > Len(d) /\ SubSeq(p, 1, Len(d)) = d

\* The paths the walker has listed, stat'ed or recorded.
Touched ==
  SeqToSet(listed) \cup AcceptedPaths \cup stat_failed \cup InventoryPaths

\* C19: throughout the walk and at its end, every directory the walker has
\* listed, the root apart, is an entry of a directory listed before it that
\* is_skippable let through; a sub-directory for which is_skippable returned
\* true is not listed, and nothing beneath it is listed, stat'ed or recorded.
C19_PrunedNotDescended ==
  InWalk =>
    /\ \A i \in 1..Len(listed) :
         listed[i] # target =>
           /\ \E j \in 1..(i - 1) :
                listed[j] = SubSeq(listed[i], 1, Len(listed[i]) - 1)
           /\ ~Skippable(listed[i])
    /\ \A d \in SkippedDirs :
         \A p \in Touched : p # d /\ ~Under(p, d)

\* A walk has returned that passed over a sub-directory and descended into
\* another.
C19_Witness ==
  /\ pc = "write_inventory"
  /\ SkippedDirs # {}
  /\ \E i \in 1..Len(listed) : Len(listed[i]) > Len(target)

\* The positions of p in a sequence of paths.
PositionsIn(sq, p) == {i \in 1..Len(sq) : sq[i] = p}

\* The paths of the inventory, in the order the walker recorded them.
InventoryOrder == [i \in 1..Len(inventory_data) |-> inventory_data[i].path]

\* Sequence g lists paths of sq, each once, in the order they have in sq.
OrderedAs(g, sq) ==
  /\ \A i \in 1..Len(g) : Cardinality(PositionsIn(sq, g[i])) = 1
  /\ \A i, j \in 1..Len(g) :
       i < j => \A a \in PositionsIn(sq, g[i]) :
                  \A b \in PositionsIn(sq, g[j]) : a < b

\* C20: the paths of every duplicate group are in the order in which the
\* loop of line 129 took them, which is the order in which the walker
\* recorded them: each group is a subsequence of the inventory order.
C20_GroupsInDiscoveryOrder ==
  \A i \in 1..Len(hash_index) :
    /\ OrderedAs(hash_index[i].paths, examined)
    /\ OrderedAs(hash_index[i].paths, InventoryOrder)

\* A run has ended with a duplicate group of three or more paths.
C20_Witness ==
  /\ pc = "done"
  /\ \E i \in 1..Len(hash_index) : Len(hash_index[i].paths) >= 3

\* The row the walker wrote for path p is in the inventory as written.
RowAsRecorded(p) ==
  \E i \in 1..Len(inventory_data) :
    /\ inventory_data[i].path = p
    /\ \E k \in 1..Len(accepted) :
         accepted[k].path = p /\ inventory_data[i] = Row(p, accepted[k].st)

\* C21: no step of detect_duplicates adds, removes or changes a row of
\* inventory_data or an entry of size_index, and every path its loop has
\* taken, with a failed stat or hash or without, keeps the row the walker
\* wrote for it.
C21_DetectLeavesInventory ==
  /\ [][pc = "detect" =>
          (inventory_data' = inventory_data /\ size_index' = size_index)]_vars
  /\ [](\A p \in SeqToSet(examined) \cup hash_failed : RowAsRecorded(p))

\* A run has ended in which hash_file returned None for a path that the
\* walker had recorded.
C21_Witness ==
  /\ pc = "done"
  /\ failures > 0
  /\ \E p \in hash_failed : p \in SeqToSet(examined) /\ RowsOf(p) # {}

\* The ffmpeg process of record i is running.
FfmpegRunning(i) == job[i] \in {"writing", "written"}

\* C22: without --force, no ffmpeg process is started on an output file
\* that exists with bytes in it, a record whose output was found to exist
\* is "skipped" with message "output exists" and no process is launched
\* for it, and no two ffmpeg processes running at one time write to one
\* output path.
C22_NoOverwriteWithoutForce ==
  ~force =>
    /\ overwritten = {}
    /\ \A i \in 1..Len(plans) :
         status[i].message = "output exists" =>
           (status[i].status = "skipped" /\ i \notin launched)
    /\ \A i, j \in 1..Len(plans) :
         (i # j /\ FfmpegRunning(i) /\ FfmpegRunning(j)) =>
           plans[i].path_out # plans[j].path_out

====
